---- MODULE Spec2Model ----
(***************************************************************************)
(* Model of crates/noseyparker-rules/src/rules.rs: the Rules collection and *)
(* its loaders (from_paths, from_yaml_file, from_yaml_files,                *)
(* from_directory, from_paths_and_contents) over a small filesystem.        *)
(*                                                                          *)
(* A file name is the sequence of its bytes, a path the sequence of its     *)
(* components (as std::path::Path compares them), a rule record the pair    *)
(* <<document id, position>>.                                               *)
(***************************************************************************)
EXTENDS Naturals, Sequences, FiniteSets, TLC

VARIABLES
    fs,          \* the filesystem: real path -> node
    api,         \* the entry point of the current call
    inputs,      \* its argument: a list of paths, or of <<path, contents>> pairs
    pc,          \* where the call stands
    i,           \* from_paths / from_paths_and_contents: index of the next input
    rules,       \* the accumulating Rules collection (`rules` of lines 20 and 38)
    yaml_files,  \* the file list from_yaml_files iterates (sorted, in from_directory)
    j,           \* from_yaml_files: index of the next file
    frules,      \* from_yaml_files: its local Vec (`rules` of line 67)
    result,      \* what the call returned
    loads,       \* how many times the call was issued
    prev,        \* what the previous issue of the same call returned
    found,       \* history: sources classified as files or found by the walk
    readlog,     \* history: every from_yaml_file read, and whether the file was there
    merges,      \* history: the arguments of Rules::extend in this call
    deletes,     \* how many files the other actor has removed
    walk         \* from_directory: the walk under way

vars == <<fs, api, inputs, pc, i, rules, yaml_files, j, frules, result, loads,
          prev, found, readlog, merges, deletes, walk>>

\* ------------------------------------------------------------------ bounds
MaxInputs == 2     \* longest list of sources given to a batch entry point
MaxRecs == 2       \* most records in one document
MaxLoads == 2      \* how many times one call is issued
MaxDeletes == 1    \* files the other actor removes during a load

\* ------------------------------------------------------------------- names
\* File names as byte strings.
N_a_yaml == <<97, 46, 121, 97, 109, 108>>      \* "a.yaml"
N_b_yml == <<98, 46, 121, 109, 108>>           \* "b.yml"
N_c_txt == <<99, 46, 116, 120, 116>>           \* "c.txt"
N_dev == <<100, 101, 118>>                     \* "dev"
N_lnk == <<108, 110, 107>>                     \* "lnk"
N_misc == <<109, 105, 115, 99>>                \* "misc"
N_out == <<111, 117, 116>>                     \* "out"
N_rules == <<114, 117, 108, 101, 115>>         \* "rules"
N_sub == <<115, 117, 98>>                      \* "sub"
N_zzz == <<122, 122, 122>>                     \* "zzz"

Names == {N_a_yaml, N_b_yml, N_c_txt, N_dev, N_lnk, N_misc, N_out, N_rules,
          N_sub, N_zzz}

P_rules == <<N_rules>>
P_rules_a == <<N_rules, N_a_yaml>>
P_rules_b == <<N_rules, N_b_yml>>
P_rules_lnk == <<N_rules, N_lnk>>
P_rules_sub == <<N_rules, N_sub>>
P_rules_sub_a == <<N_rules, N_sub, N_a_yaml>>
P_out == <<N_out>>
P_out_a == <<N_out, N_a_yaml>>
P_out_c == <<N_out, N_c_txt>>
P_misc == <<N_misc>>
P_misc_c == <<N_misc, N_c_txt>>
P_misc_sub == <<N_misc, N_sub>>
P_dev == <<N_dev>>
P_zzz == <<N_zzz>>

\* The real (link-free) paths a node may live at.
Nodes == {P_rules, P_rules_a, P_rules_b, P_rules_lnk, P_rules_sub, P_rules_sub_a,
          P_out, P_out_a, P_out_c, P_misc, P_misc_c, P_misc_sub, P_dev}

\* ---------------------------------------------------------------- documents
Rec(id, k) == <<id, k>>
Doc(id, n) == [shape |-> "list", recs |-> [k \in 1..n |-> Rec(id, k)]]
ScalarDoc == [shape |-> "scalar", recs |-> <<>>]       \* rules: "not-a-list"
MalformedDoc == [shape |-> "malformed", recs |-> <<>>]  \* not YAML at all

NoNode == [kind |-> "none", doc |-> MalformedDoc, target |-> <<>>]
DirNode == [kind |-> "dir", doc |-> MalformedDoc, target |-> <<>>]
SpecialNode == [kind |-> "special", doc |-> MalformedDoc, target |-> <<>>]
FileNode(d) == [kind |-> "file", doc |-> d, target |-> <<>>]
LinkNode(t) == [kind |-> "link", doc |-> MalformedDoc, target |-> t]

\* ------------------------------------------------------------------ results
NoErr == [ctx |-> "", cause |-> "", path |-> <<>>]
Pending == [tag |-> "pending", rules |-> <<>>, err |-> NoErr]
Ok(rs) == [tag |-> "ok", rules |-> rs, err |-> NoErr]
Err(e) == [tag |-> "err", rules |-> <<>>, err |-> e]

\* --------------------------------------------------------------- filesystem
Exists(f, q) == q \in DOMAIN f /\ f[q].kind # "none"

\* The real path of `rest` taken from the real directory `cur`: the link at
\* any component is replaced by its target, as the kernel resolves a path.
\* The links of this filesystem never lead back to themselves.
RECURSIVE Resolve(_, _, _)
Resolve(f, cur, rest) ==
    IF rest = <<>> THEN cur
    ELSE LET q == Append(cur, Head(rest))
         IN IF q \in DOMAIN f /\ f[q].kind = "link"
            THEN Resolve(f, <<>>, f[q].target \o Tail(rest))
            ELSE Resolve(f, q, Tail(rest))

\* The path after following the symbolic links of all its components.
RealPath(f, p) == Resolve(f, <<>>, p)

\* The metadata of what the path leads to, NoNode when the path is missing
\* or a link on it is broken.
Stat(f, p) == IF Exists(f, RealPath(f, p)) THEN f[RealPath(f, p)] ELSE NoNode

is_file(f, p) == Stat(f, p).kind = "file"
is_dir(f, p) == Stat(f, p).kind = "dir"

Children(f, d) == {n \in Names : Exists(f, Append(d, n))}

\* ------------------------------------------------------------ path ordering
Min(a, b) == IF a < b THEN a ELSE b

\* OsStr comparison: byte-wise lexicographic.
BytesLess(a, b) ==
    \/ Len(a) < Len(b) /\ \A k \in 1..Len(a) : a[k] = b[k]
    \/ \E k \in 1..Min(Len(a), Len(b)) :
          a[k] < b[k] /\ \A m \in 1..(k - 1) : a[m] = b[m]

\* Path comparison: lexicographic over the components.
PathLess(p, q) ==
    \/ Len(p) < Len(q) /\ \A k \in 1..Len(p) : p[k] = q[k]
    \/ \E k \in 1..Min(Len(p), Len(q)) :
          BytesLess(p[k], q[k]) /\ \A m \in 1..(k - 1) : p[m] = q[m]

RECURSIVE Insert(_, _)
Insert(x, s) ==
    IF s = <<>> THEN <<x>>
    ELSE IF PathLess(x, Head(s)) THEN <<x>> \o s
         ELSE <<Head(s)>> \o Insert(x, Tail(s))

\* Vec<PathBuf>::sort
RECURSIVE SortPaths(_)
SortPaths(s) == IF s = <<>> THEN <<>> ELSE Insert(s[Len(s)], SortPaths(SubSeq(s, 1, Len(s) - 1)))

\* ------------------------------------------------------------ directory walk
HasSuffix(n, suf) ==
    Len(n) >= Len(suf) /\ SubSeq(n, Len(n) - Len(suf) + 1, Len(n)) = suf

AnyName(n) == TRUE

\* The "yaml" file type of the ignore crate's defaults: *.yaml and *.yml.
IsYamlName(n) ==
    \/ HasSuffix(n, <<46, 121, 97, 109, 108>>)
    \/ HasSuffix(n, <<46, 121, 109, 108>>)

RECURSIVE PermsOf(_)
PermsOf(S) ==
    IF S = {} THEN {<<>>}
    ELSE UNION {{<<x>> \o q : q \in PermsOf(S \ {x})} : x \in S}

\* The orders one read of directory `real` may yield its entries in.
ReaddirOrders(f, real) == PermsOf(Children(f, real))

follow_links_off == FALSE

\* .follow_links(true), line 85
follow_links == TRUE

WalkErr(p) == [ctx |-> "", cause |-> "walk", path |-> p]

\* A directory the walk has still to read: the path it is walked under, its
\* real path, and the real paths of the directories it lies in (the loop
\* check of a followed link).
ToRead(p, real, anc) == [path |-> p, real |-> real, anc |-> anc]
NoRead == ToRead(<<>>, <<>>, {})

\* The state of a walk: the directories being walked, innermost last, each
\* with the entries its read yielded and the walk has not visited; the
\* non-directory entries met so far; and what comes next.
Walking(st, fl, e, nx, rd) ==
    [stack |-> st, files |-> fl, err |-> e, next |-> nx, read |-> rd]
NoWalk == Walking(<<>>, <<>>, NoErr, "done", NoRead)

\* One read of a directory: its entries as they are at that moment, with
\* their file types, in the order `ord`.
ReadDir(f, rd, ord) ==
    [path |-> rd.path, real |-> rd.real, anc |-> rd.anc,
     todo |-> [k \in 1..Len(ord) |->
                 [name |-> ord[k], kind |-> f[Append(rd.real, ord[k])].kind]]]

\* The walk from a state up to its next read of a directory, its first error
\* (where the caller stops, line 90) or its end: depth-first, a link followed
\* to what it points at, a link to a directory being walked an error, a
\* non-directory entry kept when its name is of the yaml type (lines 91-93).
RECURSIVE Advance(_, _, _)
Advance(f, stack, files) ==
    IF stack = <<>> THEN Walking(<<>>, files, NoErr, "done", NoRead)
    ELSE
      LET top == stack[Len(stack)]
          below == SubSeq(stack, 1, Len(stack) - 1)
      IN IF top.todo = <<>> THEN Advance(f, below, files)
         ELSE
           LET e == Head(top.todo)
               p == Append(top.path, e.name)
               rest == Append(below, [top EXCEPT !.todo = Tail(top.todo)])
               followed == e.kind = "link" /\ follow_links
               real == IF followed THEN RealPath(f, Append(top.real, e.name))
                       ELSE Append(top.real, e.name)
               kind == IF followed
                       THEN (IF Exists(f, real) THEN f[real].kind ELSE "none")
                       ELSE e.kind
           IN IF kind = "none" THEN Walking(rest, files, WalkErr(p), "done", NoRead)
              ELSE IF kind = "dir"
                THEN IF followed /\ real \in top.anc
                     THEN Walking(rest, files, WalkErr(p), "done", NoRead)
                     ELSE Walking(rest, files, NoErr, "read",
                                  ToRead(p, real, top.anc \cup {real}))
                ELSE IF IsYamlName(e.name) THEN Advance(f, rest, Append(files, p))
                     ELSE Advance(f, rest, files)

\* WalkBuilder::new(path).types(yaml).follow_links(true).standard_filters(false)
\* .build(): the start of the walk. The root is taken whatever its name.
StartWalk(f, path) ==
    IF Stat(f, path).kind = "none"
    THEN Walking(<<>>, <<>>, WalkErr(path), "done", NoRead)
    ELSE IF Stat(f, path).kind = "dir"
      THEN Walking(<<>>, <<>>, NoErr, "read",
                   ToRead(path, RealPath(f, path), {RealPath(f, path)}))
      ELSE Walking(<<>>, <<path>>, NoErr, "done", NoRead)

\* ------------------------------------------------------------------ loaders
\* serde_yaml::from_reader into Rules (derive(Deserialize), lines 13-16): the
\* document must be a mapping whose `rules` is a list of records.
from_reader(doc) ==
    IF doc.shape = "list" THEN Ok(doc.recs)
    ELSE Err([ctx |-> "", cause |-> "yaml", path |-> <<>>])

\* util::load_yaml_file: open the file, then from_reader on its bytes. The
\* error of a failed open carries no path.
load_yaml_file(f, path) ==
    IF is_file(f, path) THEN from_reader(Stat(f, path).doc)
    ELSE Err([ctx |-> "", cause |-> "io", path |-> <<>>])

with_context_no_path(r, path) ==
    IF r.tag = "err"
    THEN Err([ctx |-> "Failed to load rules YAML from", cause |-> r.err.cause,
              path |-> <<>>])
    ELSE r

\* .with_context(|| format!("Failed to load rules YAML from {}", path.display()))
with_context(r, path) ==
    IF r.tag = "err"
    THEN Err([ctx |-> "Failed to load rules YAML from", cause |-> r.err.cause,
              path |-> path])
    ELSE r

\* Rules::from_yaml_file
from_yaml_file(f, path) == with_context(load_yaml_file(f, path), path)

\* bail!("Unhandled input type: {} is neither a file nor directory", ...)
Unhandled(path) ==
    Err([ctx |-> "Unhandled input type: is neither a file nor directory",
         cause |-> "", path |-> path])

vec_replace(v, iter) == iter

\* Vec<Rule>::extend
vec_extend(v, iter) == v \o iter

\* (a merge that drops records the collection already holds)
RECURSIVE extend_dedup(_, _)
extend_dedup(rs, iter) ==
    IF iter = <<>> THEN rs
    ELSE extend_dedup(IF \E k \in 1..Len(rs) : rs[k] = Head(iter)
                      THEN rs ELSE Append(rs, Head(iter)), Tail(iter))

\* (a merge that puts the new records in front)
extend_front(rs, iter) == vec_extend(iter, rs)

\* impl Extend<Rule> for Rules
extend(rs, iter) == vec_extend(rs, iter)

\* Rules::new
new == <<>>

\* Rules::len, Rules::is_empty
len(rs) == Len(rs)
is_empty(rs) == Len(rs) = 0

\* --------------------------------------------------------------- the inputs
SeqsUpTo(S, n) == UNION {[1..k -> S] : k \in 0..n}

\* What a caller may pass to from_paths.
InputPaths == {P_rules, P_rules_lnk, P_out_a, P_dev}
\* ... to from_yaml_files,
InputFiles == {P_rules_a, P_out_a, P_zzz}
\* ... to from_directory,
InputDirs == {P_rules, P_rules_lnk, P_out, P_misc, P_misc_sub, P_out_a, P_zzz}
\* ... and to from_paths_and_contents: a label and the bytes of a document.
InputContents ==
    {<<P_zzz, Doc(P_zzz, 1)>>, <<P_out_a, Doc(P_out_a, MaxRecs)>>,
     <<P_dev, ScalarDoc>>, <<P_rules_a, MalformedDoc>>}

Filesystem(a, o, l) ==
    [q \in Nodes |->
        IF q \in {P_rules, P_rules_sub, P_out, P_misc, P_misc_sub} THEN DirNode
        ELSE IF q = P_rules_a THEN FileNode(a)
        ELSE IF q = P_rules_b THEN FileNode(Doc(P_rules_b, MaxRecs - 1))
        ELSE IF q = P_out_a THEN FileNode(o)
        ELSE IF q = P_rules_lnk THEN l
        ELSE IF q = P_rules_sub_a THEN FileNode(Doc(P_rules_sub_a, 1))
        ELSE IF q = P_dev THEN SpecialNode
        ELSE FileNode(MalformedDoc)]

Filesystems ==
    {Filesystem(a, o, l) :
        a \in {ScalarDoc, Doc(P_rules_a, MaxRecs)},
        o \in {Doc(P_out_a, 1), MalformedDoc},
        l \in {NoNode, LinkNode(P_out), LinkNode(P_rules_sub), LinkNode(P_rules),
               LinkNode(P_zzz)}}

\* ------------------------------------------------------------------ actions
Init ==
    /\ fs \in Filesystems
    /\ api = "none"
    /\ inputs = <<>>
    /\ pc = "idle"
    /\ i = 1
    /\ rules = new
    /\ yaml_files = <<>>
    /\ j = 1
    /\ frules = <<>>
    /\ result = Pending
    /\ loads = 0
    /\ prev = Pending
    /\ found = <<>>
    /\ readlog = <<>>
    /\ merges = <<>>
    /\ deletes = 0
    /\ walk = NoWalk

\* The state a call starts in.
Start(a, in, at) ==
    /\ api' = a
    /\ inputs' = in
    /\ pc' = at
    /\ i' = 1
    /\ rules' = new
    /\ yaml_files' = IF a = "from_yaml_files" THEN in ELSE <<>>
    /\ j' = 1
    /\ frules' = <<>>
    /\ result' = Pending
    /\ loads' = loads + 1
    /\ found' = <<>>
    /\ readlog' = <<>>
    /\ merges' = <<>>
    /\ UNCHANGED <<walk, fs, deletes>>

Entry(a) ==
    CASE a = "from_paths" -> "classify"
      [] a = "from_yaml_files" -> "files"
      [] a = "from_directory" -> "scan"
      [] a = "from_paths_and_contents" -> "contents"

Call_from_paths ==
    /\ pc = "idle"
    /\ \E ps \in SeqsUpTo(InputPaths, MaxInputs) :
          Start("from_paths", ps, Entry("from_paths"))
    /\ prev' = Pending

Call_from_yaml_files ==
    /\ pc = "idle"
    /\ \E ps \in SeqsUpTo(InputFiles, MaxInputs) :
          Start("from_yaml_files", ps, Entry("from_yaml_files"))
    /\ prev' = Pending

Call_from_directory ==
    /\ pc = "idle"
    /\ \E p \in InputDirs : Start("from_directory", <<p>>, Entry("from_directory"))
    /\ prev' = Pending

Call_from_paths_and_contents ==
    /\ pc = "idle"
    /\ \E cs \in SeqsUpTo(InputContents, MaxInputs) :
          Start("from_paths_and_contents", cs, Entry("from_paths_and_contents"))
    /\ prev' = Pending

\* The same call issued again on the unchanged filesystem.
Reload ==
    /\ pc = "done"
    /\ loads < MaxLoads
    /\ deletes = 0
    /\ Start(api, inputs, Entry(api))
    /\ prev' = result

Return(r) ==
    /\ result' = r
    /\ pc' = "done"

\* (a loader that passes over an input it cannot classify)
from_paths_classify_skip ==
    /\ pc = "classify"
    /\ i <= Len(inputs)
    /\ IF is_file(fs, inputs[i])
       THEN /\ pc' = "read"
            /\ found' = Append(found, inputs[i])
            /\ UNCHANGED i
       ELSE IF is_dir(fs, inputs[i])
       THEN /\ pc' = "scan"
            /\ UNCHANGED <<i, found>>
       ELSE /\ i' = i + 1
            /\ UNCHANGED <<pc, found>>
    /\ UNCHANGED <<walk, fs, api, inputs, rules, yaml_files, j, frules, loads, prev,
                   result, readlog, merges, deletes>>

\* from_paths, lines 39-42, 44, 46-47: the next input is classified; one that
\* is neither a file nor a directory ends the call. The two queries are one
\* step: the other actor only removes regular files, and an input that is not
\* a file at the first query is not made one before the second.
from_paths_classify ==
    /\ pc = "classify"
    /\ i <= Len(inputs)
    /\ IF is_file(fs, inputs[i])
       THEN /\ pc' = "read"
            /\ found' = Append(found, inputs[i])
            /\ UNCHANGED result
       ELSE IF is_dir(fs, inputs[i])
       THEN /\ pc' = "scan"
            /\ UNCHANGED <<result, found>>
       ELSE /\ Return(Unhandled(inputs[i]))
            /\ UNCHANGED found
    /\ UNCHANGED <<walk, fs, api, inputs, i, rules, yaml_files, j, frules, loads, prev,
                   readlog, merges, deletes>>

\* (a loader that skips a source it cannot load)
from_paths_read_skip ==
    /\ pc = "read"
    /\ LET r == from_yaml_file(fs, inputs[i])
       IN /\ readlog' = Append(readlog, [path |-> inputs[i],
                                          present |-> is_file(fs, inputs[i])])
          /\ rules' = extend(rules, r.rules)
          /\ merges' = Append(merges, r.rules)
          /\ i' = i + 1
          /\ pc' = "classify"
          /\ UNCHANGED result
    /\ UNCHANGED <<walk, fs, api, inputs, yaml_files, j, frules, loads, prev, found,
                   deletes>>

\* from_paths, line 43: the file is read and its rules merged.
from_paths_read ==
    /\ pc = "read"
    /\ LET r == from_yaml_file(fs, inputs[i])
       IN /\ readlog' = Append(readlog, [path |-> inputs[i],
                                          present |-> is_file(fs, inputs[i])])
          /\ IF r.tag = "err"
             THEN /\ Return(r)
                  /\ UNCHANGED <<i, rules, merges>>
             ELSE /\ rules' = extend(rules, r.rules)
                  /\ merges' = Append(merges, r.rules)
                  /\ i' = i + 1
                  /\ pc' = "classify"
                  /\ UNCHANGED result
    /\ UNCHANGED <<walk, fs, api, inputs, yaml_files, j, frules, loads, prev, found,
                   deletes>>

\* from_paths, lines 50-51.
from_paths_return ==
    /\ pc = "classify"
    /\ i > Len(inputs)
    /\ Return(Ok(rules))
    /\ UNCHANGED <<walk, fs, api, inputs, i, rules, yaml_files, j, frules, loads, prev,
                   found, readlog, merges, deletes>>

keep_walk_order(files) == files

\* yaml_files.sort(), line 95
sort_yaml_files(files) == SortPaths(files)

\* from_directory after a step of the walk: its error returned (line 90), or
\* at its end the files sorted and handed to from_yaml_files (lines 95-98), or
\* the walk to be continued.
WalkOutcome(w) ==
    IF w.err # NoErr
    THEN /\ Return(Err(w.err))
         /\ walk' = NoWalk
         /\ UNCHANGED <<yaml_files, j, frules, found>>
    ELSE IF w.next = "done"
    THEN /\ yaml_files' = sort_yaml_files(w.files)
         /\ j' = 1
         /\ frules' = <<>>
         /\ found' = found \o sort_yaml_files(w.files)
         /\ pc' = "files"
         /\ walk' = NoWalk
         /\ UNCHANGED result
    ELSE /\ walk' = w
         /\ pc' = "walk"
         /\ UNCHANGED <<result, yaml_files, j, frules, found>>

\* from_directory, lines 77-94: the walk is built and the root directory read;
\* a read yields the entries of the directory in some order.
from_directory_scan ==
    /\ pc = "scan"
    /\ LET w == StartWalk(fs, inputs[i])
       IN IF w.next = "read"
          THEN \E ord \in ReaddirOrders(fs, w.read.real) :
                  WalkOutcome(Advance(fs, <<ReadDir(fs, w.read, ord)>>, <<>>))
          ELSE WalkOutcome(w)
    /\ UNCHANGED <<fs, api, inputs, i, rules, loads, prev, readlog, merges, deletes>>

\* from_directory, lines 89-94: the walk reads the next directory it came to.
from_directory_walk ==
    /\ pc = "walk"
    /\ \E ord \in ReaddirOrders(fs, walk.read.real) :
          WalkOutcome(Advance(fs, Append(walk.stack, ReadDir(fs, walk.read, ord)),
                              walk.files))
    /\ UNCHANGED <<fs, api, inputs, i, rules, loads, prev, readlog, merges, deletes>>

\* (a loader that passes over a file it cannot open)
from_yaml_files_step_skip ==
    /\ pc = "files"
    /\ j <= Len(yaml_files)
    /\ LET r == from_yaml_file(fs, yaml_files[j])
       IN /\ readlog' = Append(readlog, [path |-> yaml_files[j],
                                          present |-> is_file(fs, yaml_files[j])])
          /\ IF r.tag = "err" /\ r.err.cause # "io"
             THEN /\ Return(r)
                  /\ UNCHANGED <<j, frules>>
             ELSE /\ frules' = vec_extend(frules, r.rules)
                  /\ j' = j + 1
                  /\ UNCHANGED <<pc, result>>
    /\ UNCHANGED <<walk, fs, api, inputs, i, rules, yaml_files, loads, prev, found,
                   merges, deletes>>

\* from_yaml_files, lines 68-71: one file is read and appended.
from_yaml_files_step ==
    /\ pc = "files"
    /\ j <= Len(yaml_files)
    /\ LET r == from_yaml_file(fs, yaml_files[j])
       IN /\ readlog' = Append(readlog, [path |-> yaml_files[j],
                                          present |-> is_file(fs, yaml_files[j])])
          /\ IF r.tag = "err"
             THEN /\ Return(r)
                  /\ UNCHANGED <<j, frules>>
             ELSE /\ frules' = vec_extend(frules, r.rules)
                  /\ j' = j + 1
                  /\ UNCHANGED <<pc, result>>
    /\ UNCHANGED <<walk, fs, api, inputs, i, rules, yaml_files, loads, prev, found,
                   merges, deletes>>

\* from_yaml_files, lines 72-73, and for a directory given to from_paths the
\* merge of line 45.
from_yaml_files_return ==
    /\ pc = "files"
    /\ j > Len(yaml_files)
    /\ IF api = "from_paths"
       THEN /\ rules' = extend(rules, frules)
            /\ merges' = Append(merges, frules)
            /\ i' = i + 1
            /\ pc' = "classify"
            /\ UNCHANGED result
       ELSE /\ Return(Ok(frules))
            /\ UNCHANGED <<rules, merges, i>>
    /\ UNCHANGED <<walk, fs, api, inputs, yaml_files, j, frules, loads, prev, found,
                   readlog, deletes>>

\* from_paths_and_contents, lines 21-25: one buffer is parsed and merged.
from_paths_and_contents_step ==
    /\ pc = "contents"
    /\ i <= Len(inputs)
    /\ LET r == with_context(from_reader(inputs[i][2]), inputs[i][1])
       IN IF r.tag = "err"
          THEN /\ Return(r)
               /\ UNCHANGED <<i, rules, merges>>
          ELSE /\ rules' = extend(rules, r.rules)
               /\ merges' = Append(merges, r.rules)
               /\ i' = i + 1
               /\ UNCHANGED <<pc, result>>
    /\ UNCHANGED <<walk, fs, api, inputs, yaml_files, j, frules, loads, prev, found,
                   readlog, deletes>>

\* from_paths_and_contents, line 27.
from_paths_and_contents_return ==
    /\ pc = "contents"
    /\ i > Len(inputs)
    /\ Return(Ok(rules))
    /\ UNCHANGED <<walk, fs, api, inputs, i, rules, yaml_files, j, frules, loads, prev,
                   found, readlog, merges, deletes>>

\* Another actor removes a regular file while a load that reads the
\* filesystem is running.
other_actor_delete ==
    /\ pc \in {"classify", "read", "scan", "walk", "files"}
    /\ deletes < MaxDeletes
    /\ \E q \in {P_rules_a, P_rules_sub_a, P_out_a} :
          /\ fs[q].kind = "file"
          /\ fs' = [fs EXCEPT ![q] = NoNode]
    /\ deletes' = deletes + 1
    /\ UNCHANGED <<walk, api, inputs, pc, i, rules, yaml_files, j, frules, result, loads,
                   prev, found, readlog, merges>>

Load ==
    \/ Call_from_paths
    \/ Call_from_yaml_files
    \/ Call_from_directory
    \/ Call_from_paths_and_contents
    \/ Reload
    \/ from_paths_classify
    \/ from_paths_read
    \/ from_paths_return
    \/ from_directory_scan
    \/ from_directory_walk
    \/ from_yaml_files_step
    \/ from_yaml_files_return
    \/ from_paths_and_contents_step
    \/ from_paths_and_contents_return

Next == Load

\* The loads on a filesystem nobody else touches.
Spec == Init /\ [][Next]_vars

NextRace == Load \/ other_actor_delete

\* The loads while another actor removes files.
SpecRace == Init /\ [][NextRace]_vars

\* ------------------------------------------------- what the claims speak of
RECURSIVE Flatten(_)
Flatten(ss) == IF ss = <<>> THEN <<>> ELSE Head(ss) \o Flatten(Tail(ss))

IsPrefix(s, t) == Len(s) <= Len(t) /\ SubSeq(t, 1, Len(s)) = s

Count(x, s) == Cardinality({k \in 1..Len(s) : s[k] = x})

\* The file names of the recognized rule file type in this filesystem.
RuleFileNames == {N_a_yaml, N_b_yml}

\* The paths at most two levels below a directory.
Below(d) ==
    {Append(d, x) : x \in Names} \cup {d \o <<x, y>> : x \in Names, y \in Names}

\* The rule files of a directory: the regular files of the rule file type
\* reachable below it, each under every path that leads to it.
DirFiles(f, d) ==
    {p \in Below(d) : is_file(f, p) /\ p[Len(p)] \in RuleFileNames}

\* A set of paths as the list in ascending path order.
RECURSIVE SortedSeq(_)
SortedSeq(S) ==
    IF S = {} THEN <<>>
    ELSE LET m == CHOOSE x \in S : \A y \in S \ {x} : PathLess(x, y)
         IN <<m>> \o SortedSeq(S \ {m})

IsSorted(ps) == \A a, b \in 1..Len(ps) : a < b => PathLess(ps[a], ps[b])

\* The records of the documents at the given paths, in the order of the paths.
DocsOf(f, ps) == Flatten([k \in 1..Len(ps) |-> Stat(f, ps[k]).doc.recs])

\* The records one input of from_paths stands for.
SourceRecords(f, p) ==
    IF is_file(f, p) THEN Stat(f, p).doc.recs
    ELSE DocsOf(f, SortedSeq(DirFiles(f, p)))

\* What loading a list of files one by one returns: the first failure, or all
\* the records.
RECURSIVE FilesOutcome(_, _, _)
FilesOutcome(f, ps, acc) ==
    IF ps = <<>> THEN Ok(acc)
    ELSE LET r == from_yaml_file(f, Head(ps))
         IN IF r.tag = "err" THEN r ELSE FilesOutcome(f, Tail(ps), acc \o r.rules)

\* A whole walk of the filesystem as it is.
RECURSIVE RunWalk(_, _)
RunWalk(f, w) ==
    IF w.err # NoErr \/ w.next = "done" THEN w
    ELSE RunWalk(f, Advance(f,
             Append(w.stack, ReadDir(f, w.read,
                 CHOOSE ord \in ReaddirOrders(f, w.read.real) : TRUE)),
             w.files))

\* What one source of a batch entry point yields when loaded on its own.
SourceOutcome(f, a, src) ==
    IF a = "from_paths_and_contents" THEN with_context(from_reader(src[2]), src[1])
    ELSE IF a = "from_yaml_files" THEN from_yaml_file(f, src)
    ELSE IF is_file(f, src) THEN from_yaml_file(f, src)
    ELSE IF is_dir(f, src)
         THEN LET w == RunWalk(f, StartWalk(f, src))
              IN IF w.err # NoErr THEN Err(w.err)
                 ELSE FilesOutcome(f, SortPaths(w.files), <<>>)
         ELSE Unhandled(src)

Batch == {"from_paths", "from_yaml_files", "from_paths_and_contents"}

Failing == {k \in 1..Len(inputs) : SourceOutcome(fs, api, inputs[k]).tag = "err"}

FirstFailing == CHOOSE k \in Failing : \A m \in Failing : k <= m

Neither(f, p) == ~is_file(f, p) /\ ~is_dir(f, p)

\* ------------------------------------------------------------------- claims

\* C1: a batch entry point whose list holds a failing source returns the
\* error of the first failing source in input order and no collection, also
\* when rules of earlier sources were already merged; with no failing source
\* it returns a collection.
C1_FailFast ==
    (pc = "done" /\ api \in Batch) =>
        IF Failing # {}
        THEN /\ result = SourceOutcome(fs, api, inputs[FirstFailing])
             /\ result.tag = "err"
             /\ result.rules = <<>>
        ELSE result.tag = "ok"

\* A call failed on its second source after the first had put rules into the
\* accumulator.
C1_Witness ==
    /\ pc = "done"
    /\ api = "from_paths"
    /\ Len(inputs) = 2
    /\ rules # <<>>
    /\ result.tag = "err"
    /\ FirstFailing = 2

\* C2: a successful from_paths returns the concatenation, in input order, of
\* the records of each input: a file's records in document order, a
\* directory's as the records of its rule files.
C2_Concatenation ==
    (pc = "done" /\ api = "from_paths" /\ result.tag = "ok") =>
        result.rules = Flatten([k \in 1..Len(inputs) |-> SourceRecords(fs, inputs[k])])

\* from_paths succeeded on a file followed by a directory of several files.
C2_Witness ==
    /\ pc = "done"
    /\ api = "from_paths"
    /\ result.tag = "ok"
    /\ inputs = <<P_out_a, P_rules>>
    /\ Len(result.rules) > 3

\* C3: from_directory reads the rule files of the directory in ascending path
\* order whatever order the walk met them in, its result is their records in
\* that order, and a second load of the unchanged directory returns the same.
C3_SortedLoad ==
    /\ (pc = "files" /\ api \in {"from_directory", "from_paths"}
          /\ is_dir(fs, inputs[i])) =>
          /\ IsSorted(yaml_files)
          /\ yaml_files = SortedSeq(DirFiles(fs, inputs[i]))
    /\ (pc = "done" /\ api = "from_directory" /\ result.tag = "ok"
          /\ is_dir(fs, inputs[1])) =>
          result.rules = DocsOf(fs, SortedSeq(DirFiles(fs, inputs[1])))
    /\ (pc = "done" /\ api = "from_directory" /\ prev.tag # "pending") =>
          result = prev

\* A directory of at least three rule files was loaded twice, successfully.
C3_Witness ==
    /\ pc = "done"
    /\ api = "from_directory"
    /\ loads = 2
    /\ prev.tag = "ok"
    /\ result.tag = "ok"
    /\ Len(yaml_files) >= 3

RECURSIVE SumLen(_, _)
SumLen(f, S) ==
    IF S = {} THEN 0
    ELSE LET p == CHOOSE x \in S : TRUE
         IN len(from_yaml_file(f, p).rules) + SumLen(f, S \ {p})

\* C4: the number of records a successful from_directory(D) returns is the
\* sum, over the rule files found in D, of the number of records
\* from_yaml_file returns for each.
C4_CountSum ==
    (pc = "done" /\ api = "from_directory" /\ result.tag = "ok"
        /\ is_dir(fs, inputs[1])) =>
        len(result.rules) = SumLen(fs, DirFiles(fs, inputs[1]))

\* A directory of several rule files, one of them with more than one record,
\* was loaded.
C4_Witness ==
    /\ pc = "done"
    /\ api = "from_directory"
    /\ result.tag = "ok"
    /\ Cardinality(DirFiles(fs, inputs[1])) >= 3
    /\ len(result.rules) > Cardinality(DirFiles(fs, inputs[1]))

\* C5: an input of from_paths that is neither a file nor a directory is never
\* skipped and never taken for an empty source: wherever it stands in the
\* list the call fails, and the input that makes the call fail (no earlier
\* input failing before it) is named by the error as neither a file nor a
\* directory.
C5_NeitherFails ==
    (pc = "done" /\ api = "from_paths") =>
        \A k \in 1..Len(inputs) :
            Neither(fs, inputs[k]) =>
                /\ result.tag = "err"
                /\ (\A m \in 1..(k - 1) : m \notin Failing) =>
                      result = Unhandled(inputs[k])

\* from_paths met an input that is neither a file nor a directory after a
\* source whose rules it had merged.
C5_Witness ==
    /\ pc = "done"
    /\ api = "from_paths"
    /\ Len(inputs) = 2
    /\ rules # <<>>
    /\ Neither(fs, inputs[2])
    /\ result = Unhandled(inputs[2])

\* The directory a link of the scanned root points at, and its one rule file.
LinkTarget == fs[P_rules_lnk].target
LinkedFile == Append(LinkTarget, N_a_yaml)
LinkedDirLoaded ==
    /\ pc = "done"
    /\ api = "from_directory"
    /\ inputs = <<P_rules>>
    /\ fs[P_rules_lnk].kind = "link"
    /\ is_dir(fs, P_rules_lnk)
    /\ is_file(fs, LinkedFile)
    /\ result.tag = "ok"
Inside(d, root) == IsPrefix(root, d)

\* C6, as claimed: the rules of the one file of a linked directory are in the
\* result exactly once, wherever the link points.
C6_Original ==
    LinkedDirLoaded => Count(Rec(LinkedFile, 1), result.rules) = 1

\* C6, amended: they are in the result exactly once when the link points
\* outside the scanned root, and twice, once for each path that leads to the
\* file, when it points at a directory inside the root.
C6_OncePerPath ==
    LinkedDirLoaded =>
        Count(Rec(LinkedFile, 1), result.rules) =
            IF Inside(LinkTarget, P_rules) THEN 2 ELSE 1

\* A root with a link to an outside directory was loaded.
C6_Witness ==
    /\ LinkedDirLoaded
    /\ ~Inside(LinkTarget, P_rules)
    /\ Count(Rec(LinkedFile, 1), result.rules) = 1

\* C7: a source that from_paths classified as a file, or that the walk found,
\* and that is gone when it is read makes the load fail at that read with the
\* error of the read; a load that succeeds has read every such source.
C7_DeletedIsError ==
    /\ \A k \in 1..Len(readlog) :
          ~readlog[k].present =>
              /\ k = Len(readlog)
              /\ result = Err([ctx |-> "Failed to load rules YAML from",
                               cause |-> "io", path |-> readlog[k].path])
    /\ (result.tag = "ok" /\ api \in {"from_paths", "from_directory"}) =>
          found = [k \in 1..Len(readlog) |-> readlog[k].path]

\* A file was classified or found, then removed, then read.
C7_Witness ==
    /\ deletes > 0
    /\ api \in {"from_paths", "from_directory"}
    /\ readlog # <<>>
    /\ ~readlog[Len(readlog)].present
    /\ \E k \in 1..Len(found) : found[k] = readlog[Len(readlog)].path

\* The document a failed parse stopped at.
BadDocRead ==
    /\ pc = "done"
    /\ IF api = "from_paths_and_contents"
       THEN i <= Len(inputs) /\ inputs[i][2].shape # "list"
       ELSE /\ readlog # <<>>
            /\ readlog[Len(readlog)].present
            /\ Stat(fs, readlog[Len(readlog)].path).doc.shape # "list"
BadDocPath ==
    IF api = "from_paths_and_contents" THEN inputs[i][1]
    ELSE readlog[Len(readlog)].path

\* C8: when a load reads a document that is malformed or not of the
\* {rules: [...]} shape, the error it returns names the path, or the label, of
\* exactly that document, through every entry point.
C8_ErrorNamesDocument ==
    BadDocRead =>
        /\ result.tag = "err"
        /\ result.err.ctx = "Failed to load rules YAML from"
        /\ result.err.cause = "yaml"
        /\ result.err.path = BadDocPath

\* A directory given to from_paths held the malformed document: the error
\* names the file, not the directory.
C8_Witness ==
    /\ BadDocRead
    /\ api = "from_paths"
    /\ inputs[i] = P_rules
    /\ result.err.path = P_rules_a

\* The directory holds regular files and directories only, none of the rule
\* file type.
NoRuleFiles(f, d) ==
    /\ is_dir(f, d)
    /\ f[d].kind = "dir"
    /\ \A p \in Below(d) :
          /\ Stat(f, p).kind \in {"none", "file", "dir"}
          /\ p \in DOMAIN f => f[p].kind # "link"
          /\ is_file(f, p) => p[Len(p)] \notin RuleFileNames

\* C9: from_directory on a directory without a file of the rule file type
\* succeeds with the empty collection: len() = 0 and is_empty().
C9_EmptyDirectory ==
    (pc = "done" /\ api = "from_directory" /\ NoRuleFiles(fs, inputs[1])) =>
        /\ result = Ok(<<>>)
        /\ len(result.rules) = 0
        /\ is_empty(result.rules)

\* A directory holding only a text file and a subdirectory was loaded.
C9_Witness ==
    /\ pc = "done"
    /\ api = "from_directory"
    /\ inputs = <<P_misc>>
    /\ NoRuleFiles(fs, P_misc)
    /\ Children(fs, P_misc) # {}
    /\ result.tag = "ok"

\* C10: the collection is at every moment the merged sequences one after the
\* other, in the order they were merged and with their duplicates; within one
\* load each merge keeps what was there as a prefix and the length never
\* decreases.
C10_Step ==
    loads' = loads =>
        /\ IsPrefix(rules, rules')
        /\ len(rules') >= len(rules)
        /\ merges' # merges =>
              rules' = rules \o merges'[Len(merges')]
C10_MergeAppends == [](rules = Flatten(merges)) /\ [][C10_Step]_vars

\* The same source was given twice and its records are there twice.
C10_Witness ==
    /\ pc = "done"
    /\ api = "from_paths"
    /\ Len(inputs) = 2
    /\ inputs[1] = inputs[2]
    /\ result.tag = "ok"
    /\ rules # <<>>
    /\ \A k \in 1..Len(rules) : Count(rules[k], rules) = 2

====
